---------------------------- MODULE Spec2Model ----------------------------
(***************************************************************************)
(* A model of rates-service (src/rates-service/main.py): the TTL cache of  *)
(* daily snapshots, the parsing of the daily feed into a rates map, the    *)
(* history series, the conversion arithmetic and the HTTP handlers.        *)
(*                                                                         *)
(* Texts are sequences of character codes: 0..9 are the digits, the other  *)
(* codes are named below.  A float is a reduced fraction or NaN.           *)
(***************************************************************************)
EXTENDS Integers, Sequences, FiniteSets, TLC

(***************************************************************************)
(* Bounds of the model.                                                    *)
(***************************************************************************)
MaxRecords == 2      \* Valute elements in one daily document
MaxSeries == 2       \* Record elements in one dynamic document
TickStep == 450      \* seconds one Tick adds to the clock
MaxClock == 1350     \* the clock stops advancing here
MaxProcs == 2        \* concurrent fetch_daily calls
MaxClockConc == 900  \* the same, in the concurrent specification

(***************************************************************************)
(* Characters and texts.                                                   *)
(***************************************************************************)
DOT == 10
COMMA == 11
DASH == 12
SLASH == 13
LETTER == 14
CH_N == 15
CH_A == 16

\* Python's None, kept apart from every text (no text holds the code -1).
None == <<-1>>
EmptyText == <<>>

\* Python's truthiness of an Optional[str].
Truthy(s) == s # None /\ s # EmptyText

\* `x or default` on an Optional[str].
OrDefault(s, default) == IF Truthy(s) THEN s ELSE default

IsDigit(c) == c \in 0..9

AllDigits(s) == Len(s) > 0 /\ \A i \in 1..Len(s) : IsDigit(s[i])

RECURSIVE DigitsValue(_)
DigitsValue(s) ==
    IF Len(s) = 0 THEN 0
    ELSE 10 * DigitsValue(SubSeq(s, 1, Len(s) - 1)) + s[Len(s)]

\* str.split(sep): the fields between the separators.
RECURSIVE SplitFrom(_, _, _, _)
SplitFrom(s, sep, i, cur) ==
    IF i > Len(s) THEN <<cur>>
    ELSE IF s[i] = sep THEN <<cur>> \o SplitFrom(s, sep, i + 1, <<>>)
    ELSE SplitFrom(s, sep, i + 1, Append(cur, s[i]))

Split(s, sep) == SplitFrom(s, sep, 1, <<>>)

\* str.replace(old, new) for single characters.
Replace(s, old, new) == [i \in 1..Len(s) |-> IF s[i] = old THEN new ELSE s[i]]

Pad2(n) == <<n \div 10, n % 10>>
Pad4(n) == <<(n \div 1000) % 10, (n \div 100) % 10, (n \div 10) % 10, n % 10>>

(***************************************************************************)
(* Calendar dates (datetime.date).                                         *)
(***************************************************************************)
IsLeap(y) == (y % 4 = 0) /\ ((y % 100 # 0) \/ (y % 400 = 0))

DaysInMonth(y, m) ==
    IF m = 2 THEN (IF IsLeap(y) THEN 29 ELSE 28)
    ELSE IF m \in {4, 6, 9, 11} THEN 30 ELSE 31

DaysBeforeYear(y) ==
    (y - 1) * 365 + ((y - 1) \div 4) - ((y - 1) \div 100) + ((y - 1) \div 400)

RECURSIVE DaysBeforeMonth(_, _)
DaysBeforeMonth(y, m) ==
    IF m = 1 THEN 0 ELSE DaysBeforeMonth(y, m - 1) + DaysInMonth(y, m - 1)

ValidDate(y, m, d) ==
    /\ y \in 1..9999
    /\ m \in 1..12
    /\ d \in 1..DaysInMonth(y, m)

NoDate == [ok |-> FALSE, y |-> 0, m |-> 0, d |-> 0]
MkDate(y, m, d) == [ok |-> TRUE, y |-> y, m |-> m, d |-> d]

toordinal(dt) == DaysBeforeYear(dt.y) + DaysBeforeMonth(dt.y, dt.m) + dt.d

RECURSIVE YearOfOrdinal(_, _)
YearOfOrdinal(n, y) ==
    IF DaysBeforeYear(y + 1) >= n THEN y ELSE YearOfOrdinal(n, y + 1)

RECURSIVE MonthOfDay(_, _, _)
MonthOfDay(y, m, rest) ==
    IF rest <= DaysInMonth(y, m) THEN m
    ELSE MonthOfDay(y, m + 1, rest - DaysInMonth(y, m))

fromordinal(n) ==
    LET y == YearOfOrdinal(n, ((n - 1) \div 366) + 1)
        rest == n - DaysBeforeYear(y)
        m == MonthOfDay(y, 1, rest)
    IN  MkDate(y, m, rest - DaysBeforeMonth(y, m))

isoformat(dt) == Pad4(dt.y) \o <<DASH>> \o Pad2(dt.m) \o <<DASH>> \o Pad2(dt.d)

\* One numeric field of strptime: %Y takes exactly four digits, %m and %d
\* one or two.
FieldOk(f, minLen, maxLen) ==
    AllDigits(f) /\ Len(f) >= minLen /\ Len(f) <= maxLen

\* datetime.strptime(s, fmt).date() for the formats "%Y-%m-%d" (sep DASH,
\* year first) and "%d.%m.%Y" (sep DOT, day first); ok = FALSE stands for
\* the ValueError (or the TypeError on None).
DateOfFields(fy, fm, fd) ==
    IF /\ FieldOk(fy, 4, 4)
       /\ FieldOk(fm, 1, 2)
       /\ FieldOk(fd, 1, 2)
       /\ ValidDate(DigitsValue(fy), DigitsValue(fm), DigitsValue(fd))
    THEN MkDate(DigitsValue(fy), DigitsValue(fm), DigitsValue(fd))
    ELSE NoDate

DateOfParts(p, yearFirst) ==
    IF Len(p) # 3 THEN NoDate
    ELSE IF yearFirst THEN DateOfFields(p[1], p[2], p[3])
    ELSE DateOfFields(p[3], p[2], p[1])

strptime(s, sep, yearFirst) ==
    IF s = None THEN NoDate ELSE DateOfParts(Split(s, sep), yearFirst)

\* _date_to_cbr: [raised, value]; raised is strptime's ValueError.
strftime(dt) ==
    IF ~dt.ok THEN [raised |-> TRUE, value |-> None]
    ELSE [raised |-> FALSE,
          value |-> Pad2(dt.d) \o <<SLASH>> \o Pad2(dt.m) \o <<SLASH>> \o Pad4(dt.y)]

date_to_cbr(date_iso) ==
    IF ~Truthy(date_iso) THEN [raised |-> FALSE, value |-> None]
    ELSE strftime(strptime(date_iso, DASH, TRUE))

\* _ddmmyyyy_to_iso: the three dot-separated parts re-joined, unvalidated.
JoinIso(p) ==
    IF Len(p) # 3 THEN None ELSE p[3] \o <<DASH>> \o p[2] \o <<DASH>> \o p[1]

ddmmyyyy_to_iso(ddmmyyyy) ==
    IF ~Truthy(ddmmyyyy) THEN None ELSE JoinIso(Split(ddmmyyyy, DOT))


(***************************************************************************)
(* Floats: [kind, num, den] with kind "num" (the reduced fraction num/den, *)
(* den > 0), "nan", or "none" (Python's None where a float is optional).   *)
(***************************************************************************)
RECURSIVE GCD(_, _)
GCD(a, b) == IF b = 0 THEN a ELSE GCD(b, a % b)

Abs(n) == IF n < 0 THEN -n ELSE n

FNone == [kind |-> "none", num |-> 0, den |-> 1]
FNaN == [kind |-> "nan", num |-> 0, den |-> 1]

\* The float n/d, d # 0.
Frac(n, d) ==
    LET g == GCD(Abs(n), Abs(d))
        s == IF d < 0 THEN -1 ELSE 1
    IN  [kind |-> "num", num |-> (s * n) \div g, den |-> (s * d) \div g]

FOne == Frac(1, 1)

\* Python's truthiness of a float: 0.0 is falsy, NaN is truthy.
FTruthy(x) == x.kind = "nan" \/ (x.kind = "num" /\ x.num # 0)

\* a / b for floats, b not zero.
FDiv(a, b) ==
    IF a.kind = "nan" \/ b.kind = "nan" THEN FNaN
    ELSE Frac(a.num * b.den, a.den * b.num)

\* a * b for floats.
FMul(a, b) ==
    IF a.kind = "nan" \/ b.kind = "nan" THEN FNaN
    ELSE Frac(a.num * b.num, a.den * b.den)

\* Python's == on floats: NaN equals nothing.
FEq(a, b) == a.kind = "num" /\ b.kind = "num" /\ a = b

RECURSIVE Pow10(_)
Pow10(k) == IF k = 0 THEN 1 ELSE 10 * Pow10(k - 1)

\* int(text): an optional minus sign and at least one digit; ok = FALSE is
\* the ValueError.
int(text) ==
    LET neg == Len(text) > 0 /\ text[1] = DASH
        body == IF neg THEN SubSeq(text, 2, Len(text)) ELSE text
    IN  IF AllDigits(body)
        THEN [ok |-> TRUE, val |-> IF neg THEN -DigitsValue(body) ELSE DigitsValue(body)]
        ELSE [ok |-> FALSE, val |-> 0]

\* float(text): "nan", or an optional minus sign and digits around at most
\* one dot (a comma is no decimal separator); ok = FALSE is the ValueError.
DigitsOrEmpty(f) == \A i \in 1..Len(f) : IsDigit(f[i])

\* The float of the parts p around the dot, with the sign sgn.
FloatOfParts(p, sgn) ==
    IF Len(p) = 1 /\ AllDigits(p[1])
    THEN [ok |-> TRUE, val |-> Frac(sgn * DigitsValue(p[1]), 1)]
    ELSE IF /\ Len(p) = 2
            /\ DigitsOrEmpty(p[1]) /\ DigitsOrEmpty(p[2])
            /\ Len(p[1]) + Len(p[2]) > 0
    THEN [ok |-> TRUE,
          val |-> Frac(sgn * (DigitsValue(p[1]) * Pow10(Len(p[2])) + DigitsValue(p[2])),
                       Pow10(Len(p[2])))]
    ELSE [ok |-> FALSE, val |-> FNone]

float(text) ==
    IF text = <<CH_N, CH_A, CH_N>> THEN [ok |-> TRUE, val |-> FNaN]
    ELSE IF Len(text) > 0 /\ text[1] = DASH
    THEN FloatOfParts(Split(SubSeq(text, 2, Len(text)), DOT), -1)
    ELSE FloatOfParts(Split(text, DOT), 1)

\* str.upper() on the char codes the feeds and the requests use.
upper(s) ==
    CASE s = "usd" -> "USD"
      [] s = "rub" -> "RUB"
      [] s = "eur" -> "EUR"
      [] OTHER -> s

(***************************************************************************)
(* fetch_daily: parsing one daily document.                                *)
(*   document: [date, valutes]; a Valute: [ID, NumCode, CharCode, Name,    *)
(*   Nominal, Value], the texts None when the element is absent.           *)
(***************************************************************************)
TTL_SECONDS == 900

\* The float value of a Valute's Value text (lines 80-84).
FloatOrNone(f) == IF f.ok THEN f.val ELSE FNone

ValuteValue(value_text) ==
    FloatOrNone(float(Replace(OrDefault(value_text, <<0>>), COMMA, DOT)))

\* The item of one Valute (lines 77-95); raised is int()'s ValueError.
ValuteItem(valute) ==
    LET nominal == int(OrDefault(valute.Nominal, <<1>>))
    IN  [raised |-> ~nominal.ok,
         item |-> [id |-> valute.ID,
                   num_code |-> valute.NumCode,
                   char_code |-> upper(valute.CharCode),
                   name |-> valute.Name,
                   nominal |-> nominal.val,
                   value |-> ValuteValue(valute.Value)]]

\* Whether an item enters rates (line 98).
EntersRates(item) ==
    item.char_code # "" /\ item.value.kind # "none" /\ item.nominal > 0

\* rates[charcode] = {...} (lines 99-104).
RatesPut(rates, item) ==
    [k \in DOMAIN rates \cup {item.char_code} |->
        IF k = item.char_code
        THEN [rub_per_unit |-> FDiv(item.value, Frac(item.nominal, 1)),
              nominal |-> item.nominal, name |-> item.name, id |-> item.id]
        ELSE rates[k]]

\* The loop over root.findall("Valute") (lines 76-104), from record i on.
RECURSIVE ValuteLoop(_, _, _, _)
\* One turn of the loop, r the item of record i.
ValuteStep(valutes, i, items, rates, r) ==
    IF r.raised THEN [raised |-> TRUE, items |-> items, rates |-> rates]
    ELSE ValuteLoop(valutes, i + 1, Append(items, r.item),
                    IF EntersRates(r.item) THEN RatesPut(rates, r.item) ELSE rates)

ValuteLoop(valutes, i, items, rates) ==
    IF i > Len(valutes) THEN [raised |-> FALSE, items |-> items, rates |-> rates]
    ELSE ValuteStep(valutes, i, items, rates, ValuteItem(valutes[i]))

RubEntry == [rub_per_unit |-> FOne, nominal |-> 1, name |-> "Rouble", id |-> "RUB"]

\* A variant of AddRub that would keep a RUB entry the feed supplied.
AddRubKeepsFeed(rates) ==
    [k \in DOMAIN rates \cup {"RUB"} |-> IF k \in DOMAIN rates THEN rates[k] ELSE RubEntry]

\* rates["RUB"] = {...} (line 107).
AddRub(rates) ==
    [k \in DOMAIN rates \cup {"RUB"} |-> IF k = "RUB" THEN RubEntry ELSE rates[k]]

\* The rates_map comprehension (line 114): nominal is dropped.
RatesMapOf(rates) ==
    [k \in DOMAIN rates |->
        [rub_per_unit |-> rates[k].rub_per_unit, name |-> rates[k].name, id |-> rates[k].id]]

EmptyMap == [k \in {} |-> RubEntry]

NoData ==
    [date |-> None, count |-> 0, items |-> <<>>, requested_date_iso |-> None,
     rates_map |-> RatesMapOf(EmptyMap)]

\* Lines 70-115: the snapshot of a well-formed document.
DataOf(r, doc, date_iso) ==
    [raised |-> r.raised,
     data |-> IF r.raised THEN NoData
              ELSE [date |-> doc.date,
                    count |-> Len(r.items),
                    items |-> r.items,
                    requested_date_iso |-> date_iso,
                    rates_map |-> RatesMapOf(AddRub(r.rates))]]

ParseDaily(doc, date_iso) ==
    DataOf(ValuteLoop(doc.valutes, 1, <<>>, EmptyMap), doc, date_iso)

(***************************************************************************)
(* fetch_daily: the cache and the upstream request.                        *)
(*   A payload is a Python dict, here a record whose field error is ""     *)
(*   when the dict has no "error" key.  The cache maps a key to            *)
(*   <<timestamp, payload>>.  An upstream response is [kind, doc] with     *)
(*   kind "neterr" (requests.get raised), "status" (a status other than    *)
(*   200), "badxml" (200, a body ET.fromstring rejects) or "ok".           *)
(***************************************************************************)
CacheKey(date_iso) == <<"daily", date_iso>>

EmptyCache == [k \in {} |-> <<0, NoData>>]

Snapshot(data) == [error |-> ""] @@ data

ErrorValue(msg) == [error |-> msg] @@ NoData

HasError(value) == value.error # ""

\* A variant of CacheHit that would still serve an entry aged TTL_SECONDS.
CacheHitLate(c, key, now) == key \in DOMAIN c /\ now - c[key][1] <= TTL_SECONDS

\* `key in _cache` and `now - ts < TTL_SECONDS` (lines 52-54).
CacheHit(c, key, now) == key \in DOMAIN c /\ now - c[key][1] < TTL_SECONDS

\* A variant of CacheStore that would put the new timestamp on the payload
\* the key already holds.
CacheStoreMerged(c, key, now, data) ==
    [k \in DOMAIN c \cup {key} |->
        IF k = key
        THEN IF key \in DOMAIN c THEN <<now, c[key][2]>> ELSE <<now, data>>
        ELSE c[k]]

\* `_cache[key] = (now, data)` (line 116).
CacheStore(c, key, now, data) ==
    [k \in DOMAIN c \cup {key} |-> IF k = key THEN <<now, data>> ELSE c[k]]

Raised(c, reqs) ==
    [raised |-> TRUE, value |-> ErrorValue("raised"), cache |-> c, reqs |-> reqs]

\* A variant of FailResult that would empty the cache on a failure.
FailResultEvicts(c, msg) ==
    [raised |-> FALSE, value |-> ErrorValue(msg), cache |-> EmptyCache, reqs |-> 1]

\* The return of an error dict after the request failed (lines 64-68): the
\* cache is not touched.
FailResult(c, msg) ==
    [raised |-> FALSE, value |-> ErrorValue(msg), cache |-> c, reqs |-> 1]

\* Lines 116-117: the parsed snapshot p is stored and returned.
StoreParsed(c, now, date_iso, p) ==
    IF p.raised THEN Raised(c, 1)
    ELSE [raised |-> FALSE,
          value |-> Snapshot(p.data),
          cache |-> CacheStore(c, CacheKey(date_iso), now, Snapshot(p.data)),
          reqs |-> 1]

\* Lines 62-117: what follows the upstream response.
AfterRequest(c, now, date_iso, resp) ==
    IF resp.kind = "neterr" THEN FailResult(c, "Network error")
    ELSE IF resp.kind = "status" THEN FailResult(c, "CBR returned status")
    ELSE IF resp.kind = "badxml" THEN Raised(c, 1)
    ELSE StoreParsed(c, now, date_iso, ParseDaily(resp.doc, date_iso))

\* fetch_daily(date_iso) called at time now with the cache c, the upstream
\* answering resp if asked: [raised, value, cache, reqs], reqs the number
\* of upstream requests issued.
fetch_daily(c, now, date_iso, resp) ==
    IF CacheHit(c, CacheKey(date_iso), now)
    THEN [raised |-> FALSE, value |-> c[CacheKey(date_iso)][2], cache |-> c, reqs |-> 0]
    ELSE IF date_to_cbr(date_iso).raised THEN Raised(c, 0)
    ELSE AfterRequest(c, now, date_iso, resp)

\* get_valute_id(char_code, None): [raised, id, cache, reqs]; id None when
\* the code is not found or the fetch returned an error.
ValuteIdIn(r, char_code) ==
    [raised |-> r.raised, cache |-> r.cache, reqs |-> r.reqs,
     id |-> IF r.raised \/ HasError(r.value) THEN "None"
            ELSE IF upper(char_code) \in DOMAIN r.value.rates_map
                 THEN r.value.rates_map[upper(char_code)].id
                 ELSE "None"]

get_valute_id(c, now, char_code, resp) ==
    ValuteIdIn(fetch_daily(c, now, None, resp), char_code)

(***************************************************************************)
(* cbr_daily, cbr_convert, cbr_currencies, cbr_daily_csv.                  *)
(*   A handler's result is [raised, body, cache, reqs]; raised stands for  *)
(*   an exception leaving the handler.                                     *)
(***************************************************************************)
Handled(r, body) ==
    [raised |-> r.raised, body |-> body, cache |-> r.cache, reqs |-> r.reqs]

\* Lines 202-206.
StrictMismatch(date, strict, data) ==
    /\ strict
    /\ Truthy(date)
    /\ Truthy(ddmmyyyy_to_iso(data.date))
    /\ ddmmyyyy_to_iso(data.date) # date

\* Lines 198-206, data the result of fetch_daily.
DailyResponse(data, date, strict) ==
    IF data.raised \/ HasError(data.value) THEN Handled(data, data.value)
    ELSE IF StrictMismatch(date, strict, data.value)
    THEN Handled(data, ErrorValue("CBR file unavailable for the date"))
    ELSE Handled(data, data.value)

cbr_daily(c, now, date, strict, resp) ==
    DailyResponse(fetch_daily(c, now, date, resp), date, strict)

\* A variant of ConvRate that would multiply the two rates.
ConvRateProduct(rub_per_from, rub_per_to) ==
    IF FTruthy(rub_per_to) THEN FMul(rub_per_from, rub_per_to) ELSE FNone

\* Line 227.
ConvRate(rub_per_from, rub_per_to) ==
    IF FTruthy(rub_per_to) THEN FDiv(rub_per_from, rub_per_to) ELSE FNone

\* Line 228.
ConvResult(amount, rate) ==
    IF rate.kind # "none" THEN FMul(amount, rate) ELSE FNone

NoConv ==
    [date |-> None, from |-> "", to |-> "", amount |-> FNone, rate |-> FNone,
     result |-> FNone]

\* Lines 218-229, data the result of fetch_daily, f and t the upper-cased
\* codes.
ConvResponse(data, f, t, amount) ==
    IF data.raised \/ HasError(data.value) THEN Handled(data, data.value)
    ELSE IF f \notin DOMAIN data.value.rates_map
    THEN Handled(data, [error |-> "currency not found"] @@ NoConv)
    ELSE IF t \notin DOMAIN data.value.rates_map
    THEN Handled(data, [error |-> "currency not found"] @@ NoConv)
    ELSE LET rate == ConvRate(data.value.rates_map[f].rub_per_unit,
                              data.value.rates_map[t].rub_per_unit)
         IN  Handled(data, [error |-> "", date |-> data.value.date, from |-> f, to |-> t,
                            amount |-> amount, rate |-> rate,
                            result |-> ConvResult(amount, rate)])

cbr_convert(c, now, from_code, to_code, amount, date, resp) ==
    ConvResponse(fetch_daily(c, now, date, resp), upper(from_code), upper(to_code), amount)

\* The order of the char codes the feeds use (str comparison).
CodeRank(code) ==
    CASE code = "" -> 0
      [] code = "CHF" -> 1
      [] code = "EUR" -> 2
      [] code = "GBP" -> 3
      [] code = "JPY" -> 4
      [] code = "KZT" -> 5
      [] code = "RUB" -> 6
      [] code = "USD" -> 7
      [] OTHER -> 8

\* The codes of a rates map in ascending order (items.sort, line 262).
RECURSIVE SortedCodes(_)
SortedCodes(S) ==
    IF S = {} THEN <<>>
    ELSE LET least == CHOOSE x \in S : \A y \in S : CodeRank(x) <= CodeRank(y)
         IN  <<least>> \o SortedCodes(S \ {least})

\* Lines 257-263, data the result of fetch_daily.
CurrenciesResponse(data) ==
    IF data.raised \/ HasError(data.value) THEN Handled(data, data.value)
    ELSE LET codes == SortedCodes(DOMAIN data.value.rates_map)
         IN  Handled(data, [error |-> "", date |-> data.value.date,
                            items |-> [i \in 1..Len(codes) |->
                                [code |-> codes[i],
                                 name |-> data.value.rates_map[codes[i]].name]]])

cbr_currencies(c, now, date, resp) == CurrenciesResponse(fetch_daily(c, now, date, resp))

\* One CSV row (lines 242-243); rub_per_1 is FNone for the empty cell.
CsvRow(it) ==
    [char_code |-> it.char_code, name |-> it.name, nominal |-> it.nominal,
     rub_per_nominal |-> it.value,
     rub_per_1 |-> IF it.value.kind # "none" /\ FTruthy(it.value) /\ it.nominal # 0
                   THEN LET per1 == FDiv(it.value, Frac(it.nominal, 1))
                        IN  IF FTruthy(per1) THEN per1 ELSE FNone
                   ELSE FNone]

\* Lines 235-251, data the result of fetch_daily.
CsvResponse(data) ==
    IF data.raised \/ HasError(data.value) THEN Handled(data, data.value)
    ELSE Handled(data, [error |-> "", date |-> data.value.date,
                        rows |-> [i \in 1..Len(data.value.items) |->
                                     CsvRow(data.value.items[i])]])

cbr_daily_csv(c, now, date, resp) == CsvResponse(fetch_daily(c, now, date, resp))

(***************************************************************************)
(* fetch_history.                                                          *)
(*   The upstream series is a sequence of records [day, Date, Value,       *)
(*   Nominal]: day is the ordinal of the day the record is for, Date the   *)
(*   attribute text the feed prints for it.  The dynamic endpoint answers  *)
(*   the records whose day lies in [date_req1, date_req2].                 *)
(***************************************************************************)
NoHistory == [code |-> "", name |-> "", from |-> None, to |-> None, points |-> <<>>]

HistoryError(msg) == [error |-> msg] @@ NoHistory

\* A variant of RubPoints that would leave the last day out.
RubPointsShort(lo, delta) ==
    [i \in 1..delta |->
        [date |-> isoformat(fromordinal(lo + i - 1)), rub_per_unit |-> FOne]]

\* Lines 141-144: delta + 1 points from the ordinal lo on.
RubPoints(lo, delta) ==
    [i \in 1..(delta + 1) |->
        [date |-> isoformat(fromordinal(lo + i - 1)), rub_per_unit |-> FOne]]

\* Lines 136-145: the series between the parsed dates dt_from and dt_to.
RubSeries(c, date_from, date_to, dt_from, dt_to) ==
    IF ~dt_from.ok \/ ~dt_to.ok
    THEN [raised |-> FALSE, body |-> HistoryError("bad dates"), cache |-> c, reqs |-> 0]
    ELSE LET swap == toordinal(dt_to) < toordinal(dt_from)
             lo == IF swap THEN toordinal(dt_to) ELSE toordinal(dt_from)
             hi == IF swap THEN toordinal(dt_from) ELSE toordinal(dt_to)
         IN  [raised |-> FALSE,
              body |-> [error |-> "", code |-> "RUB", name |-> "Rouble",
                        from |-> date_from, to |-> date_to,
                        points |-> RubPoints(lo, hi - lo)],
              cache |-> c, reqs |-> 0]

\* Lines 131-145: the RUB branch.
history_rub(c, date_from, date_to) ==
    RubSeries(c, date_from, date_to,
              strptime(date_from, DASH, TRUE), strptime(date_to, DASH, TRUE))

\* The dynamic endpoint's answer to date_req1, date_req2 (DD/MM/YYYY texts).
RecordsBetween(series, d1, d2) ==
    LET keep(rec) == d1.ok /\ d2.ok /\ toordinal(d1) <= rec.day /\ rec.day <= toordinal(d2)
    IN  SelectSeq(series, keep)

DynamicAnswer(series, date_req1, date_req2) ==
    RecordsBetween(series, strptime(date_req1, SLASH, FALSE), strptime(date_req2, SLASH, FALSE))

\* Lines 166-181: the point of one Record, ok = FALSE when it is dropped.
PointOf(value, nominal, dt) ==
    LET per_unit == IF value.ok /\ nominal.ok /\ nominal.val # 0
                    THEN FDiv(value.val, Frac(nominal.val, 1))
                    ELSE FNone
    IN  [ok |-> dt.ok /\ per_unit.kind # "none",
         point |-> [date |-> IF dt.ok THEN isoformat(dt) ELSE None,
                    rub_per_unit |-> per_unit]]

RecordPoint(rec) ==
    PointOf(float(Replace(OrDefault(rec.Value, <<0>>), COMMA, DOT)),
            int(OrDefault(rec.Nominal, <<1>>)),
            strptime(rec.Date, DOT, FALSE))

\* points.append(...) (line 181), skipped for a dropped record.
AppendPoint(points, r) == IF r.ok THEN Append(points, r.point) ELSE points

RECURSIVE RecordLoop(_, _, _)
RecordLoop(recs, i, points) ==
    IF i > Len(recs) THEN points
    ELSE RecordLoop(recs, i + 1, AppendPoint(points, RecordPoint(recs[i])))

\* Lines 183-184: the display name, after the second fetch_daily(None).
HistoryName(value, code) ==
    IF HasError(value) THEN code
    ELSE IF code \in DOMAIN value.rates_map THEN value.rates_map[code].name
    ELSE code

\* Lines 147-185: the branch of every other code.  resp1 answers the
\* fetch_daily of get_valute_id, dyn the dynamic request, resp3 the second
\* fetch_daily, called at the time now3.
\* Lines 183-185: the result, data the second fetch_daily's result and
\* reqs the requests issued before it.
HistoryResult(data, reqs, code, date_from, date_to, points) ==
    IF data.raised THEN [raised |-> TRUE, body |-> HistoryError("raised"),
                         cache |-> data.cache, reqs |-> reqs + data.reqs]
    ELSE [raised |-> FALSE,
          body |-> [error |-> "", code |-> code,
                    name |-> HistoryName(data.value, code),
                    from |-> date_from, to |-> date_to, points |-> points],
          cache |-> data.cache, reqs |-> reqs + data.reqs]

\* Lines 148-185, v the result of get_valute_id, p1 and p2 those of
\* _date_to_cbr.
HistoryOfId(v, p1, p2, code, date_from, date_to, series, dyn, now3, resp3) ==
    IF v.raised THEN [raised |-> TRUE, body |-> HistoryError("raised"),
                      cache |-> v.cache, reqs |-> v.reqs]
    ELSE IF v.id \in {"None", ""}
    THEN [raised |-> FALSE, body |-> HistoryError("code not found"),
          cache |-> v.cache, reqs |-> v.reqs]
    ELSE IF p1.raised \/ p2.raised
    THEN [raised |-> TRUE, body |-> HistoryError("raised"),
          cache |-> v.cache, reqs |-> v.reqs]
    ELSE IF dyn = "neterr"
    THEN [raised |-> FALSE, body |-> HistoryError("Network error"),
          cache |-> v.cache, reqs |-> v.reqs + 1]
    ELSE IF dyn = "status"
    THEN [raised |-> FALSE, body |-> HistoryError("CBR returned status"),
          cache |-> v.cache, reqs |-> v.reqs + 1]
    ELSE IF dyn = "badxml"
    THEN [raised |-> TRUE, body |-> HistoryError("raised"),
          cache |-> v.cache, reqs |-> v.reqs + 1]
    ELSE HistoryResult(fetch_daily(v.cache, now3, None, resp3), v.reqs + 1,
                       code, date_from, date_to,
                       RecordLoop(DynamicAnswer(series, p1.value, p2.value), 1, <<>>))

history_other(c, now, code, date_from, date_to, series, resp1, dyn, now3, resp3) ==
    HistoryOfId(get_valute_id(c, now, code, resp1),
                date_to_cbr(date_from), date_to_cbr(date_to),
                code, date_from, date_to, series, dyn, now3, resp3)

\* fetch_history(code, date_from, date_to), which cbr_history returns.
fetch_history(c, now, code, date_from, date_to, series, resp1, dyn, now3, resp3) ==
    IF upper(code) = "RUB" THEN history_rub(c, date_from, date_to)
    ELSE history_other(c, now, upper(code), date_from, date_to, series, resp1, dyn, now3, resp3)

(***************************************************************************)
(* The inputs the model draws from.                                        *)
(***************************************************************************)
Iso(y, m, d) == isoformat(MkDate(y, m, d))

Dotted(y, m, d) == Pad2(d) \o <<DOT>> \o Pad2(m) \o <<DOT>> \o Pad4(y)

Valute(id, code, nominal, value) ==
    [ID |-> id, NumCode |-> "840", CharCode |-> code, Name |-> id,
     Nominal |-> nominal, Value |-> value]

UsdRecord == Valute("R01235", "USD", <<1>>, <<9, 2, COMMA, 5>>)

\* One record per kind of content a Valute element can have.
FeedRecords ==
    { UsdRecord,
      Valute("R01235b", "usd", <<1, 0>>, <<3, 0, COMMA, 0>>),   \* lower case, nominal 10
      Valute("R01239", "EUR", None, <<1, 0, 0, DOT, 5>>),       \* no Nominal element
      Valute("R01239x", "EUR", <<LETTER>>, <<9, 9>>),           \* unparseable Nominal
      Valute("R00000", "RUB", <<1>>, <<2, COMMA, 0>>),          \* the feed lists RUB
      Valute("R01820", "JPY", <<1, 0, 0>>, <<LETTER>>),         \* unparseable Value
      Valute("R01820z", "JPY", <<0>>, <<6, 0>>),                \* Nominal 0
      Valute("R01775", "CHF", <<1>>, None),                     \* no Value element
      Valute("R09999", "", <<1>>, <<5>>),                       \* no CharCode
      Valute("R01035", "GBP", <<1>>, <<CH_N, CH_A, CH_N>>),     \* Value "nan"
      Valute("R01335", "KZT", <<DASH, 1>>, <<5>>) }             \* Nominal -1

SeqsUpTo(S, n) == UNION {[1..k -> S] : k \in 0..n}

\* The Date attribute of a daily document.
DateAttrs ==
    { Dotted(2024, 2, 29),
      Dotted(2024, 2, 28),
      <<2, 9, DOT, 2, DOT, 2, 0, 2, 4>>,      \* 29.2.2024
      <<2, 9, DOT, 0, 2>>,                    \* two parts only
      None }                                   \* no attribute

\* The daily documents of the parsing specification.
Feeds ==
    {[date |-> Dotted(2024, 2, 29), valutes |-> vs] : vs \in SeqsUpTo(FeedRecords, MaxRecords)}
    \cup {[date |-> a, valutes |-> <<UsdRecord>>] : a \in DateAttrs}

DocA == [date |-> Dotted(2024, 2, 29), valutes |-> <<UsdRecord>>]

DocB ==
    [date |-> Dotted(2024, 2, 28),
     valutes |-> <<Valute("R01235", "USD", <<1>>, <<9, 1, COMMA, 0>>)>>]

Docs == {DocA, DocB}

GoodDate == Iso(2024, 2, 29)
BadDate == <<2, 0, 2, 4, DASH, 0, 2, DASH, 3, 0>>      \* 2024-02-30
UnpaddedDate == <<2, 0, 2, 4, DASH, 3, DASH, 2>>       \* 2024-3-2

ReqDates == {None, GoodDate, BadDate}

HistDates == {Iso(2024, 2, 28), UnpaddedDate, BadDate}

\* The dates of the RUB series: a year's end, a leap day, a month's end.
RubDates ==
    { Iso(2023, 12, 30), Iso(2024, 1, 1), Iso(2024, 2, 28), Iso(2024, 2, 29),
      Iso(2024, 3, 1), UnpaddedDate, BadDate, EmptyText }

Rec(day, date, value, nominal) ==
    [day |-> toordinal(day), Date |-> date, Value |-> value, Nominal |-> nominal]

\* One record per kind of content a Record element can have.
SeriesRecords ==
    { Rec(MkDate(2024, 2, 28), Dotted(2024, 2, 28), <<9, 1, COMMA, 0>>, <<1>>),
      Rec(MkDate(2024, 2, 29), Dotted(2024, 2, 29), <<9, 2, COMMA, 5>>, None),
      Rec(MkDate(2024, 3, 1), <<1, DOT, 3>>, <<9, 3>>, <<1>>),               \* bad Date
      Rec(MkDate(2024, 3, 1), Dotted(2024, 3, 1), <<LETTER>>, <<1>>),        \* bad Value
      Rec(MkDate(2024, 3, 2), Dotted(2024, 3, 2), <<9, 4>>, <<0>>) }         \* Nominal 0

Series0 == <<Rec(MkDate(2024, 2, 29), Dotted(2024, 2, 29), <<9, 2, COMMA, 5>>, <<1>>)>>

Amount == Frac(100, 1)

(***************************************************************************)
(* The state.                                                              *)
(*   feed    the daily document the upstream serves now                   *)
(*   series  the records the upstream's dynamic endpoint holds             *)
(*   cache   _cache                                                        *)
(*   clock   time.time()                                                   *)
(*   last    the call that ended last: its arguments, what the upstream    *)
(*           answered and the number of upstream requests it issued        *)
(*   ret     what that call returned                                       *)
(*   calls   the fetch_daily calls in progress (concurrent specification)  *)
(*   written per key, the <<timestamp, payload, over>> of the call that    *)
(*           stored last; over: it replaced the entry of a call that       *)
(*           began no earlier than it did                                  *)
(***************************************************************************)
VARIABLES feed, series, cache, clock, last, ret, calls, written

vars == <<feed, series, cache, clock, last, ret, calls, written>>

NoCall ==
    [op |-> "none", date |-> None, strict |-> FALSE, from_code |-> "", to_code |-> "",
     date_to |-> None, resp |-> "none", dyn |-> "none", reqs |-> 0]

NoRet == [raised |-> FALSE, body |-> ErrorValue("")]

Procs == 1..MaxProcs

Idle == [pc |-> "idle", date |-> None, now |-> 0, data |-> Snapshot(NoData)]

Init ==
    /\ feed = DocA
    /\ series = Series0
    /\ cache = EmptyCache
    /\ clock = 0
    /\ last = NoCall
    /\ ret = NoRet
    /\ calls = [p \in Procs |-> Idle]
    /\ written = EmptyCache

\* The call ended with the result r.
Ended(call, r) ==
    /\ cache' = r.cache
    /\ last' = [call EXCEPT !.reqs = r.reqs]
    /\ ret' = [raised |-> r.raised, body |-> IF r.raised THEN ErrorValue("raised") ELSE r.body]

Resp(kind) == [kind |-> kind, doc |-> feed]

\* Time passes.
Tick ==
    /\ clock + TickStep <= MaxClock
    /\ clock' = clock + TickStep
    /\ last' = NoCall
    /\ ret' = NoRet
    /\ UNCHANGED <<feed, series, cache, calls, written>>

\* The upstream publishes another daily document.
Publish(doc) ==
    /\ doc # feed
    /\ feed' = doc
    /\ last' = NoCall
    /\ ret' = NoRet
    /\ UNCHANGED <<series, cache, clock, calls, written>>

\* fetch_daily returns its value as it is.
Returned(data) == Handled(data, data.value)

FetchDaily(d, rk) ==
    /\ Ended([NoCall EXCEPT !.op = "fetch_daily", !.date = d, !.resp = rk],
             Returned(fetch_daily(cache, clock, d, Resp(rk))))
    /\ UNCHANGED <<feed, series, clock, calls, written>>

CbrDaily(d, strict, rk) ==
    /\ Ended([NoCall EXCEPT !.op = "cbr_daily", !.date = d, !.strict = strict, !.resp = rk],
             cbr_daily(cache, clock, d, strict, Resp(rk)))
    /\ UNCHANGED <<feed, series, clock, calls, written>>

CbrConvert(f, t, d, rk) ==
    /\ Ended([NoCall EXCEPT !.op = "cbr_convert", !.date = d, !.from_code = f,
                            !.to_code = t, !.resp = rk],
             cbr_convert(cache, clock, f, t, Amount, d, Resp(rk)))
    /\ UNCHANGED <<feed, series, clock, calls, written>>

CbrCurrencies(d, rk) ==
    /\ Ended([NoCall EXCEPT !.op = "cbr_currencies", !.date = d, !.resp = rk],
             cbr_currencies(cache, clock, d, Resp(rk)))
    /\ UNCHANGED <<feed, series, clock, calls, written>>

CbrDailyCsv(d, rk) ==
    /\ Ended([NoCall EXCEPT !.op = "cbr_daily_csv", !.date = d, !.resp = rk],
             cbr_daily_csv(cache, clock, d, Resp(rk)))
    /\ UNCHANGED <<feed, series, clock, calls, written>>

\* cbr_history; late: the dynamic request took TickStep seconds, so the
\* second fetch_daily reads the clock that much later.
CbrHistory(code, from, to, rk, dyn, late) ==
    /\ late => clock + TickStep <= MaxClock
    /\ clock' = IF late THEN clock + TickStep ELSE clock
    /\ Ended([NoCall EXCEPT !.op = "cbr_history", !.date = from, !.date_to = to,
                            !.from_code = code, !.resp = rk, !.dyn = dyn],
             fetch_history(cache, clock, code, from, to, series, Resp(rk), dyn,
                           IF late THEN clock + TickStep ELSE clock, Resp(rk)))
    /\ UNCHANGED <<feed, series, calls, written>>

RespKinds == {"ok", "neterr", "status"}

(***************************************************************************)
(* Spec: the cache over time, every handler called one after the other.    *)
(***************************************************************************)
Next ==
    \/ Tick
    \/ \E doc \in Docs : Publish(doc)
    \/ \E d \in ReqDates, rk \in RespKinds : FetchDaily(d, rk)
    \/ \E d \in {GoodDate, BadDate} : CbrDaily(d, TRUE, "ok")
    \/ \E d \in {None, BadDate} : CbrConvert("usd", "RUB", d, "ok")
    \/ \E d \in {None, BadDate} : CbrCurrencies(d, "ok")
    \/ \E d \in {None, BadDate} : CbrDailyCsv(d, "ok")
    \/ \E code \in {"RUB", "USD"}, from \in {GoodDate, BadDate}, late \in BOOLEAN :
          CbrHistory(code, from, GoodDate, "ok", "ok", late)

Spec == Init /\ [][Next]_vars

\* C1: a fetch_daily(d) call made while the cache holds an entry of
\* ("daily", d) stored at t returns that entry's snapshot, issues no upstream
\* request and leaves the cache alone when now - t < TTL_SECONDS, and issues
\* one upstream request when now - t >= TTL_SECONDS.
C1_TtlWindow ==
    [][ last'.op = "fetch_daily" /\ CacheKey(last'.date) \in DOMAIN cache
        => IF clock - cache[CacheKey(last'.date)][1] < TTL_SECONDS
           THEN /\ ~ret'.raised
                /\ ret'.body = cache[CacheKey(last'.date)][2]
                /\ last'.reqs = 0
                /\ cache' = cache
           ELSE last'.reqs = 1 ]_vars

\* A call served from an entry stored TickStep seconds earlier, while the
\* upstream already serves another document.
C1_Witness ==
    /\ last.op = "fetch_daily"
    /\ last.reqs = 0
    /\ ~ret.raised
    /\ CacheKey(last.date) \in DOMAIN cache
    /\ clock - cache[CacheKey(last.date)][1] = TickStep
    /\ ret.body = cache[CacheKey(last.date)][2]
    /\ ret.body # Snapshot(ParseDaily(feed, last.date).data)

\* C2: a fetch_daily call whose upstream request fails (network error or a
\* status other than 200) returns an error value and leaves the whole cache
\* as it was; no cache entry ever holds an error value, and no call served
\* from the cache returns one.
C2_FailureLeavesCache ==
    /\ [][ last'.op = "fetch_daily" /\ last'.reqs = 1 /\ last'.resp \in {"neterr", "status"}
           => ~ret'.raised /\ HasError(ret'.body) /\ cache' = cache ]_vars
    /\ [](\A k \in DOMAIN cache : ~HasError(cache[k][2]))
    /\ [](last.op = "fetch_daily" /\ last.reqs = 0 /\ ~ret.raised => ~HasError(ret.body))

\* A failed refresh of an expired entry, another key's entry beside it.
C2_Witness ==
    /\ last.op = "fetch_daily"
    /\ last.reqs = 1
    /\ last.resp = "neterr"
    /\ HasError(ret.body)
    /\ CacheKey(last.date) \in DOMAIN cache
    /\ clock - cache[CacheKey(last.date)][1] >= TTL_SECONDS
    /\ \E k \in DOMAIN cache : k # CacheKey(last.date)

\* A text that is no valid YYYY-MM-DD calendar date.
InvalidDate(d) == Truthy(d) /\ ~strptime(d, DASH, TRUE).ok

BoundaryOps == {"cbr_daily", "cbr_history", "cbr_convert", "cbr_daily_csv", "cbr_currencies"}

\* C8: a boundary operation called with an invalid date text ends with an
\* {error: message} response, never with an exception leaving the handler,
\* and leaves the cache unchanged.
C8_InvalidDateIsError ==
    [][ last'.op \in BoundaryOps /\ InvalidDate(last'.date)
        => ~ret'.raised /\ HasError(ret'.body) /\ cache' = cache ]_vars

(***************************************************************************)
(* SpecFeed: one daily document out of Feeds, fetched and served.          *)
(***************************************************************************)
InitFeed ==
    /\ feed \in Feeds
    /\ series = Series0
    /\ cache = EmptyCache
    /\ clock = 0
    /\ last = NoCall
    /\ ret = NoRet
    /\ calls = [p \in Procs |-> Idle]
    /\ written = EmptyCache

NextFeed ==
    \/ \E rk \in {"ok", "badxml"} : FetchDaily(None, rk)
    \/ \E strict \in BOOLEAN : CbrDaily(GoodDate, strict, "ok")
    \/ CbrCurrencies(None, "ok")
    \/ CbrDailyCsv(None, "ok")

SpecFeed == InitFeed /\ [][NextFeed]_vars

\* C3: the rates_map of every snapshot fetch_daily returns holds RUB with
\* rub_per_unit 1.0, and every other key c comes from a record with char
\* code c, a non-null value and nominal > 0, with rub_per_unit = value /
\* nominal of that record.
C3_RatesMap ==
    last.op = "fetch_daily" /\ ~ret.raised /\ ~HasError(ret.body)
    => /\ "RUB" \in DOMAIN ret.body.rates_map
       /\ FEq(ret.body.rates_map["RUB"].rub_per_unit, FOne)
       /\ \A c \in DOMAIN ret.body.rates_map \ {"RUB"} :
             \E i \in 1..Len(feed.valutes) :
                /\ upper(feed.valutes[i].CharCode) = c
                /\ ret.body.items[i].value.kind # "none"
                /\ ret.body.items[i].nominal > 0
                /\ ret.body.rates_map[c].rub_per_unit
                     = FDiv(ret.body.items[i].value, Frac(ret.body.items[i].nominal, 1))

\* A snapshot served from the cache whose feed lists RUB itself, beside a
\* record that enters the map.
C3_Witness ==
    /\ last.op = "fetch_daily"
    /\ last.reqs = 0
    /\ ~ret.raised
    /\ Len(feed.valutes) = 2
    /\ feed.valutes[1].CharCode = "RUB"
    /\ feed.valutes[2].CharCode = "usd"
    /\ ret.body.rates_map["USD"].rub_per_unit = Frac(3, 1)

\* C9 (fetch_daily): after a 200 response with a well-formed document the
\* call returns a snapshot that lists every record in feed order, with value
\* null for an unparseable Value and nominal 1 for an absent or unparseable
\* Nominal.
C9_MalformedRecordTolerated ==
    last.op = "fetch_daily" /\ last.resp = "ok" /\ last.reqs = 1
    => /\ ~ret.raised
       /\ ~HasError(ret.body)
       /\ Len(ret.body.items) = Len(feed.valutes)
       /\ \A i \in 1..Len(feed.valutes) :
             /\ ret.body.items[i].id = feed.valutes[i].ID
             /\ ~int(OrDefault(feed.valutes[i].Nominal, <<1>>)).ok
                  => ret.body.items[i].nominal = 1

\* C4: cbr_daily called with a date d whose fetch succeeds answers an error
\* when strict is true and the snapshot's effective date is not d, and the
\* snapshot itself when strict is false.
C4_StrictMode ==
    /\ last.op = "cbr_daily"
    /\ ~ret.raised
    /\ CacheKey(last.date) \in DOMAIN cache
    => LET snapshot == cache[CacheKey(last.date)][2]
           effective == strptime(snapshot.date, DOT, FALSE)
           requested == strptime(last.date, DASH, TRUE)
       IN  /\ last.strict /\ effective # requested => HasError(ret.body)
           /\ ~last.strict => ret.body = snapshot

(***************************************************************************)
(* SpecConv: conversions over the rate map of one document out of Feeds.   *)
(***************************************************************************)
ConvCodes == {"USD", "usd", "RUB", "rub", "CHF", "GBP", "JPY", "XXX"}

ConvPairs ==
    {p \in ConvCodes \X ConvCodes : upper(p[1]) = upper(p[2])}
    \cup {<<"USD", "RUB">>, <<"RUB", "usd">>, <<"USD", "CHF">>}

NextConv == \E p \in ConvPairs : CbrConvert(p[1], p[2], None, "ok")

SpecConv == InitFeed /\ [][NextConv]_vars

\* The rate map the last cbr_convert call read.
ConvMap == cache[CacheKey(last.date)][2].rates_map

ConvSelf ==
    /\ last.op = "cbr_convert"
    /\ ~ret.raised
    /\ CacheKey(last.date) \in DOMAIN cache
    /\ upper(last.from_code) = upper(last.to_code)
    /\ upper(last.from_code) \in DOMAIN ConvMap

\* C7 as stated: converting X to X, X in the rate map, returns rate 1.0 and
\* result = amount, never a null rate or an error.
C7_SelfConversion ==
    ConvSelf => ~HasError(ret.body) /\ FEq(ret.body.rate, FOne) /\ FEq(ret.body.result, Amount)

\* C7 amended: converting X to X returns rate 1.0 and result = amount when
\* X's rub_per_unit is a non-zero number, and a null rate and a null result
\* (no error) when it is 0.
C7_SelfConversionNonZero ==
    ConvSelf
    => LET x == ConvMap[upper(last.from_code)].rub_per_unit
       IN  /\ ~HasError(ret.body)
           /\ x.kind = "num" /\ x.num # 0
                => FEq(ret.body.rate, FOne) /\ FEq(ret.body.result, Amount)
           /\ x.kind = "num" /\ x.num = 0
                => ret.body.rate = FNone /\ ret.body.result = FNone

\* usd converted to USD over a map whose USD rate is 92.5.
C7_Witness ==
    /\ ConvSelf
    /\ last.from_code = "usd"
    /\ last.to_code = "USD"
    /\ ConvMap["USD"].rub_per_unit = Frac(185, 2)
    /\ ret.body.rate = FOne
    /\ ret.body.result = Amount

(***************************************************************************)
(* SpecRub: the RUB series over every pair of RubDates.                    *)
(***************************************************************************)
NextRub ==
    \E code \in {"RUB", "rub"}, from \in RubDates, to \in RubDates :
        CbrHistory(code, from, to, "ok", "ok", FALSE)

SpecRub == Init /\ [][NextRub]_vars

RubRange ==
    /\ last.op = "cbr_history"
    /\ upper(last.from_code) = "RUB"
    /\ strptime(last.date, DASH, TRUE).ok
    /\ strptime(last.date_to, DASH, TRUE).ok
    /\ toordinal(strptime(last.date, DASH, TRUE)) <= toordinal(strptime(last.date_to, DASH, TRUE))

\* C5: fetch_history(RUB, a, b) with valid dates a <= b returns (b - a) + 1
\* points, the i-th one dated a + (i - 1) days in ISO form, each with
\* rub_per_unit 1.0.
C5_RubSeries ==
    RubRange
    => LET a == toordinal(strptime(last.date, DASH, TRUE))
           b == toordinal(strptime(last.date_to, DASH, TRUE))
           points == ret.body.points
       IN  /\ ~ret.raised
           /\ ~HasError(ret.body)
           /\ Len(points) = b - a + 1
           /\ \A i \in 1..Len(points) :
                 /\ FEq(points[i].rub_per_unit, FOne)
                 /\ Len(points[i].date) = 10
                 /\ strptime(points[i].date, DASH, TRUE).ok
                 /\ toordinal(strptime(points[i].date, DASH, TRUE)) = a + i - 1

\* The series from 2024-02-28 to 2024-3-2: four points over the leap day.
C5_Witness ==
    /\ RubRange
    /\ last.from_code = "rub"
    /\ last.date = Iso(2024, 2, 28)
    /\ last.date_to = UnpaddedDate
    /\ Len(ret.body.points) = 4
    /\ ret.body.points[2].date = Iso(2024, 2, 29)
    /\ ret.body.points[4].date = Iso(2024, 3, 2)

(***************************************************************************)
(* SpecHist: fetch_history over an upstream series.                        *)
(***************************************************************************)
InitHist ==
    /\ feed = DocA
    /\ series \in SeqsUpTo(SeriesRecords, MaxSeries)
    /\ cache = EmptyCache
    /\ clock = 0
    /\ last = NoCall
    /\ ret = NoRet
    /\ calls = [p \in Procs |-> Idle]
    /\ written = EmptyCache

NextHist ==
    \E code \in {"RUB", "usd", "XXX"}, from \in HistDates, to \in HistDates,
       dyn \in {"ok", "neterr", "status", "badxml"} :
        CbrHistory(code, from, to, "ok", dyn, FALSE)

SpecHist == InitHist /\ [][NextHist]_vars

\* C6: fetch_history(code, date_from, date_to) with date_to < date_from
\* returns the points fetch_history(code, date_to, date_from) returns
\* against the same upstream state.
C6_ReversedRange ==
    /\ last.op = "cbr_history"
    /\ ~ret.raised
    /\ strptime(last.date, DASH, TRUE).ok
    /\ strptime(last.date_to, DASH, TRUE).ok
    /\ toordinal(strptime(last.date_to, DASH, TRUE)) < toordinal(strptime(last.date, DASH, TRUE))
    => LET swapped == fetch_history(cache, clock, last.from_code, last.date_to, last.date,
                                    series, Resp("ok"), last.dyn, clock, Resp("ok"))
       IN  /\ ~swapped.raised
           /\ ret.body.error = swapped.body.error
           /\ ret.body.points = swapped.body.points

(***************************************************************************)
(* SpecConc: fetch_daily calls running concurrently, each one the steps    *)
(* read the cache (Begin), receive the upstream's answer (Respond), write  *)
(* the cache (Store).                                                      *)
(***************************************************************************)
ConcDates == {None, GoodDate}

TickConc ==
    /\ clock + TickStep <= MaxClockConc
    /\ clock' = clock + TickStep
    /\ UNCHANGED <<feed, series, cache, last, ret, calls, written>>

\* Lines 50-60: the call reads the clock and the cache; on a miss it goes on
\* to the upstream request.
Begin(p, d) ==
    /\ calls[p].pc = "idle"
    /\ IF CacheHit(cache, CacheKey(d), clock)
       THEN /\ last' = [NoCall EXCEPT !.op = "fetch_daily", !.date = d]
            /\ ret' = [raised |-> FALSE, body |-> cache[CacheKey(d)][2]]
            /\ UNCHANGED calls
       ELSE /\ ~date_to_cbr(d).raised
            /\ calls' = [calls EXCEPT ![p] = [Idle EXCEPT !.pc = "request", !.date = d,
                                                          !.now = clock]]
            /\ UNCHANGED <<last, ret>>
    /\ UNCHANGED <<feed, series, cache, clock, written>>

\* Lines 62-115: the upstream answers; a failure ends the call, a document
\* is parsed into the call's snapshot.
Responded(p, rk, r) ==
    IF r.raised \/ HasError(r.value)
    THEN /\ calls' = [calls EXCEPT ![p] = Idle]
         /\ last' = [NoCall EXCEPT !.op = "fetch_daily", !.date = calls[p].date,
                                   !.resp = rk, !.reqs = 1]
         /\ ret' = [raised |-> r.raised, body |-> r.value]
    ELSE /\ calls' = [calls EXCEPT ![p].pc = "store", ![p].data = r.value]
         /\ UNCHANGED <<last, ret>>

Respond(p, rk, doc) ==
    /\ calls[p].pc = "request"
    /\ Responded(p, rk, AfterRequest(cache, calls[p].now, calls[p].date,
                                     [kind |-> rk, doc |-> doc]))
    /\ UNCHANGED <<feed, series, cache, clock, written>>

\* Lines 116-117: the call writes its entry and returns its snapshot.
Store(p) ==
    /\ calls[p].pc = "store"
    /\ cache' = CacheStore(cache, CacheKey(calls[p].date), calls[p].now, calls[p].data)
    /\ written' =
          [k \in DOMAIN written \cup {CacheKey(calls[p].date)} |->
              IF k = CacheKey(calls[p].date)
              THEN <<calls[p].now, calls[p].data,
                     k \in DOMAIN cache /\ cache[k][1] >= calls[p].now>>
              ELSE written[k]]
    /\ calls' = [calls EXCEPT ![p] = Idle]
    /\ last' = [NoCall EXCEPT !.op = "fetch_daily", !.date = calls[p].date,
                              !.resp = "ok", !.reqs = 1]
    /\ ret' = [raised |-> FALSE, body |-> calls[p].data]
    /\ UNCHANGED <<feed, series, clock>>

NextConc ==
    \/ TickConc
    \/ \E p \in Procs, d \in ConcDates : Begin(p, d)
    \/ \E p \in Procs, rk \in {"ok", "neterr"}, doc \in Docs : Respond(p, rk, doc)
    \/ \E p \in Procs : Store(p)

SpecConc == Init /\ [][NextConc]_vars

\* C10: under every interleaving, each key's cache entry is the
\* (timestamp, snapshot) pair one successful fetch_daily call for that key
\* stored whole, the one of the call that stored last, and never an error
\* value; a Store step leaves the storing call's own pair in the cache.
C10_CacheUncorrupted ==
    /\ [](\A k \in DOMAIN cache :
            /\ k \in DOMAIN written
            /\ cache[k] = <<written[k][1], written[k][2]>>
            /\ ~HasError(cache[k][2])
            /\ cache[k][2].requested_date_iso = k[2]
            /\ \E doc \in Docs : cache[k][2] = Snapshot(ParseDaily(doc, k[2]).data))
    /\ [][\A p \in Procs :
            calls[p].pc = "store" /\ calls'[p].pc = "idle"
            => /\ CacheKey(calls[p].date) \in DOMAIN cache'
               /\ cache'[CacheKey(calls[p].date)] = <<calls[p].now, calls[p].data>>
               /\ \A k \in DOMAIN cache : k # CacheKey(calls[p].date)
                     => k \in DOMAIN cache' /\ cache'[k] = cache[k]]_vars

\* Two calls missed the same key and both asked the upstream; the one that
\* began first stored last, and its entry replaced the other's.
C10_Witness ==
    \E k \in DOMAIN cache :
        /\ written[k][3]
        /\ cache[k] = <<written[k][1], written[k][2]>>
        /\ cache[k][1] < clock
        /\ \A p \in Procs : calls[p].pc = "idle"

=============================================================================
